---------------------------- MODULE Spec2Model ----------------------------
(***************************************************************************)
(* A model of the bounded-concurrency LLM inference dispatcher of          *)
(* src/src/llm_infer.py (RateLimiter, invoke_async_nonbatched, llm_infer)  *)
(* and of its consumers, the evaluation harness of                         *)
(* src/eval/eval_examples.py (evaluate_single) and the distractor          *)
(* generation of src/src/question_generation.py.                           *)
(*                                                                         *)
(* asyncio runs the coroutines of one event loop one at a time: the code   *)
(* between two suspension points (await on a locked semaphore, await       *)
(* asyncio.sleep, await asyncio.to_thread) is one atomic action here.      *)
(* time.monotonic() is the variable clock, which Tick advances.            *)
(***************************************************************************)
EXTENDS Integers, Sequences, FiniteSets, TLC

(***************************************************************************)
(* Bounds of the model.                                                    *)
(***************************************************************************)
MaxPrompts == 3    \* longest prompt list submitted to one run
MaxLimit   == 2    \* largest concurrency_limit argument
MaxCalls   == 2    \* largest RateLimiter.max_calls
MaxPeriod  == 2    \* largest RateLimiter.period (clock ticks)
MaxTime    == 2    \* the clock stops advancing here
MaxExs     == 11   \* longest prompt list given to the batched fallback
EvalTasks  == 41   \* evaluate_single tasks created by main_async
NumChoices == 3    \* choices of a multiple-choice question

(***************************************************************************)
(* Constants of the program.                                               *)
(***************************************************************************)
batch_size              == 10   \* llm_infer.py, line 142
DefaultConcurrencyLimit == 25   \* llm_infer.py, line 53
MAX_CONCURRENT          == 40   \* eval_examples.py, line 13

(***************************************************************************)
(* Values.  Python strings and chat-message objects are kept apart by a    *)
(* type tag, because the code distinguishes them (response.content).       *)
(* A text is a pair <<tag, n>>: <<"Q", 2>> is the prompt "Q2", <<"R", 2>>  *)
(* the backend's reply to it.                                              *)
(***************************************************************************)
Str(t)       == [type |-> "str", val |-> t]
AIMessage(t) == [type |-> "AIMessage", val |-> t]
NoValue      == [type |-> "none", val |-> <<"", 0>>]
NoResponse   == Str(<<"No Response", 0>>)
\* an exception leaving a coroutine, as the value that stands for it
Raised(e)    == [type |-> "exception", val |-> <<e, 0>>]

Prompt(i)    == Str(<<"Q", i>>)
Reply(p)     == <<"R", p.val[2]>>

PromptLists  == { [i \in 1..n |-> Prompt(i)] : n \in 0..MaxPrompts }

(***************************************************************************)
(* Model names, and the substring tests the code makes on them.            *)
(***************************************************************************)
Names == {"gpt-4o", "meta/llama-3-70b", "LLaMA-3-70b", "Claude-3"}

\* 'LLaMA' in name
HasLLaMA(n)       == n = "LLaMA-3-70b"
\* 'Claude' in name
HasClaude(n)      == n = "Claude-3"
\* "llama" in model
HasLlama(n)       == n = "meta/llama-3-70b"
\* "llama" in name.lower()
LowerHasLlama(n)  == n \in {"meta/llama-3-70b", "LLaMA-3-70b"}

\* llm_infer: the client built for a model name
MakeLLM(model) == IF HasLlama(model) THEN "Replicate" ELSE "AzureChatOpenAI"

\* What a client hands back for the text the backend produced: Replicate
\* the text itself, the chat client a message object holding it.
BackendResponse(llm, text) ==
    IF llm = "Replicate" THEN Str(text) ELSE AIMessage(text)

\* llm.invoke(prompt) when the backend answers
Invoke(llm, prompt) == BackendResponse(llm, Reply(prompt))

\* What the backend does with one call.
Outcomes == {"ok", "content_filter", "error"}

VARIABLES
    \* invoke_async_nonbatched: arguments
    prompts,            \* the prompt list
    name,               \* the model name
    concurrency_limit,  \* the concurrency_limit argument
    \* RateLimiter fields
    max_calls, period, calls,
    \* asyncio.Semaphore: the number of free slots
    semaphore,
    \* time.monotonic()
    clock,
    \* the tasks of line 100, by prompt position
    pc,                 \* where each task is
    wake,               \* when a task suspended in asyncio.sleep may resume
    outcome,            \* what the backend did with the task's call
    ret,                \* the value the task returned
    pbar,               \* tqdm: number of update(1) calls
    invoked,            \* llm.invoke calls made for the task's prompt
    \* the caller
    mainpc,             \* "start", "gather", "returned", "raised"
    results,            \* the list returned
    \* history
    reordered,          \* a task finished before a task created before it
    \* llm_infer, batched fallback (lines 141-191)
    exs,                \* the prompt list
    bi,                 \* the loop variable i: start of the current chunk
    idx,                \* position of the individual retry in the chunk
    bresults,           \* the list results of invoke_concurrently_batch
    bpc,                \* "idle", "chunk", "retry", "returned", "raised"
    filtered,           \* starts of the chunks that failed on a content filter
    failed,             \* starts of the chunks whose submission raised
    submitted,          \* per prompt position: submissions to llm.abatch
    output,             \* what llm_infer returns
    \* evaluation harness (eval_examples.py)
    hsem,               \* free slots of the module-level semaphore
    waiting,            \* evaluate_single tasks before "async with semaphore"
    inflight,           \* tasks whose llm_infer call is at the backend
    scored,             \* tasks that returned their metadata
    last,               \* metadata of the task scored last
    \* callers of RateLimiter.acquire, by position
    issued,             \* time.monotonic() when acquire() was called
    naps,               \* number of asyncio.sleep calls acquire() made
    slept,              \* the sleep_time handed to asyncio.sleep
    admit,              \* the timestamp acquire() appended
    \* distractor generation (question_generation.py)
    forum,              \* per example: len(full_content) >= 3
    gen,                \* per example and generator: where its coroutine is
    gsem,               \* free slots of the semaphore of line 216
    gpc,                \* process_examples_async: "idle", "run", "written", "raised"
    written,            \* the examples with a record in the output file
    glast,              \* the generator call that finished last
    \* llm_infer (lines 109-139)
    ex,                 \* the argument ex, as the caller gave it
    ipc                 \* "idle", "called", "dispatch", "fallback", "returned"

dispVars == <<prompts, name, concurrency_limit, max_calls, period, calls,
              semaphore, clock, pc, wake, outcome, ret, pbar, invoked,
              mainpc, results, reordered>>

batchVars == <<exs, bi, idx, bresults, bpc, filtered, failed, submitted,
               output>>

evalVars == <<hsem, waiting, inflight, scored, last>>

rlVars == <<issued, naps, slept, admit>>

genVars == <<forum, gen, gsem, gpc, written, glast>>

inferVars == <<ex, ipc>>

stageVars == <<rlVars, genVars, inferVars>>

vars == <<dispVars, batchVars, evalVars, stageVars>>

Tasks == DOMAIN pc

\* tasks holding a slot of the gate: from its acquisition to its release
Holding  == {i \in Tasks : pc[i] \in {"sleeping", "invoke"}}
\* tasks whose backend call is running
InFlight == {i \in Tasks : pc[i] = "invoke"}

(***************************************************************************)
(* RateLimiter                                                             *)
(***************************************************************************)
\* Prune with a window one tick short: timestamps go before they are
\* period old
PruneEager(cs, now, per) == SelectSeq(cs, LAMBDA t : now - t < per - 1)

\* [t for t in self.calls if now - t < self.period]
Prune(cs, now, per) == SelectSeq(cs, LAMBDA t : now - t < per)

\* SleepTime one tick short: the oldest timestamp is still in the window
\* when the caller wakes
SleepTimeShort(cs, now, per) == per - (now - cs[1]) - 1

\* self.period - (now - self.calls[0])
SleepTime(cs, now, per) == per - (now - cs[1])

\* WindowFull with the comparison off by one
WindowFullStrict(cs, mc) == Len(cs) > mc

\* len(self.calls) >= self.max_calls
WindowFull(cs, mc) == Len(cs) >= mc

(***************************************************************************)
(* invoke_async_nonbatched                                                 *)
(***************************************************************************)
\* Capacity with the caller's limit kept as a ceiling for the special names
CapacityWithinLimit(n, limit) ==
    IF HasLLaMA(n) THEN 1
    ELSE IF HasClaude(n) THEN (IF limit < 2 THEN limit ELSE 2)
    ELSE limit

\* lines 70-77: max_calls and period of the limiter built for a model name
RateProfile(n) ==
    IF HasLLaMA(n) THEN [max_calls |-> 500, period |-> 60]
    ELSE IF HasClaude(n) THEN [max_calls |-> 1000, period |-> 30]
    ELSE [max_calls |-> 10000, period |-> 60]

\* lines 68-77: the capacity of the semaphore built for a model name
Capacity(n, limit) ==
    IF HasLLaMA(n) THEN 1 ELSE IF HasClaude(n) THEN 2 ELSE limit

\* OnContentFilter without its return: the exception leaves the task
OnContentFilterReraise == Raised("ContentFilter")

\* lines 91-93: the handler's branch for a content-filter message
OnContentFilter == NoResponse

\* OnOtherException with a handler that absorbs content-filter errors only
OnOtherExceptionReraise == Raised("Exception")

\* lines 94-96: the handler's branch for every other exception
OnOtherException == NoResponse

\* lines 87-89: the value returned for a response of the client
Unwrap(n, response) ==
    IF ~LowerHasLlama(n)
    THEN IF response.type = "AIMessage"
         THEN Str(response.val)      \* response.content
         ELSE OnOtherException       \* AttributeError, caught at line 90
    ELSE response

\* lines 86-96: what single_call returns when the backend produced text, or
\* failed
SingleCall(n, llm, text, oc) ==
    IF oc = "ok"
    THEN Unwrap(n, BackendResponse(llm, text))
    ELSE IF oc = "content_filter"
    THEN OnContentFilter
    ELSE OnOtherException

\* lines 86-96: what single_call returns for one prompt and backend outcome
SingleCallResult(n, llm, prompt, oc) == SingleCall(n, llm, Reply(prompt), oc)

\* lines 68-79 and 100: build the gate and the limiter, create one task per
\* prompt.
Construct ==
    /\ mainpc = "start"
    /\ Capacity(name, concurrency_limit) >= 0
    /\ semaphore' = Capacity(name, concurrency_limit)
    /\ calls' = <<>>
    /\ pbar' = 0
    /\ invoked' = [i \in 1..Len(prompts) |-> 0]
    /\ pc' = [i \in 1..Len(prompts) |-> "created"]
    /\ wake' = [i \in 1..Len(prompts) |-> 0]
    /\ outcome' = [i \in 1..Len(prompts) |-> "none"]
    /\ ret' = [i \in 1..Len(prompts) |-> NoValue]
    /\ mainpc' = "gather"
    /\ UNCHANGED <<batchVars, evalVars, stageVars>>
    /\ UNCHANGED <<prompts, name, concurrency_limit, max_calls, period,
                   clock, results, reordered>>

\* SemaphoreFree off by one
SemaphoreFreeOffByOne == semaphore >= 0

\* SemaphoreFree off by one the other way: the last slot is never given out
SemaphoreFreeStrict == semaphore > 1

\* asyncio.Semaphore.acquire: a task passes only when a slot is free
SemaphoreFree == semaphore > 0

\* lines 82-86, first part: the task takes a slot and runs
\* RateLimiter.acquire (lines 41-47, 51) up to its first suspension: either
\* the window is full and it sleeps, or it records the admission and hands
\* the backend call to a thread.
Enter(i) ==
    /\ mainpc = "gather"
    /\ pc[i] = "created"
    /\ SemaphoreFree
    /\ semaphore' = semaphore - 1
    /\ LET now == clock
           pruned == Prune(calls, now, period)
       IN  \/ /\ WindowFull(pruned, max_calls)
              /\ pruned # <<>>
              /\ calls' = pruned
              /\ wake' = [wake EXCEPT ![i] = now + SleepTime(pruned, now, period)]
              /\ pc' = [pc EXCEPT ![i] = "sleeping"]
              /\ UNCHANGED invoked
           \/ /\ ~WindowFull(pruned, max_calls)
              /\ calls' = Append(pruned, clock)
              /\ pc' = [pc EXCEPT ![i] = "invoke"]
              /\ invoked' = [invoked EXCEPT ![i] = @ + 1]
              /\ UNCHANGED wake
    /\ UNCHANGED <<batchVars, evalVars, stageVars>>
    /\ UNCHANGED <<prompts, name, concurrency_limit, max_calls, period,
                   clock, outcome, ret, pbar, mainpc, results, reordered>>

\* lines 47-51, then 86: asyncio.sleep is over; re-prune, record the
\* admission, hand the backend call to a thread.
Wake(i) ==
    /\ mainpc = "gather"
    /\ pc[i] = "sleeping"
    /\ clock >= wake[i]
    /\ LET now == clock
           pruned == Prune(calls, now, period)
       IN  calls' = Append(pruned, clock)
    /\ pc' = [pc EXCEPT ![i] = "invoke"]
    /\ invoked' = [invoked EXCEPT ![i] = @ + 1]
    /\ wake' = [wake EXCEPT ![i] = 0]
    /\ UNCHANGED <<batchVars, evalVars, stageVars>>
    /\ UNCHANGED <<prompts, name, concurrency_limit, max_calls, period,
                   semaphore, clock, outcome, ret, pbar, mainpc, results,
                   reordered>>

\* Release left out: the slot is kept
ReleaseNone == semaphore

\* asyncio.Semaphore.release, at the exit of "async with semaphore"
Release == semaphore + 1

\* PbarUpdate placed at the end of the try body: skipped when the call raises
PbarUpdateInTry(oc) == IF oc = "ok" THEN pbar + 1 ELSE pbar

\* lines 97-98: finally: pbar.update(1), whatever the outcome of the call
PbarUpdate(oc) == pbar + 1

\* AfterCall with a retry: a task whose call failed goes round again
AfterCallRetry(r, oc) == IF oc # "ok" THEN "created" ELSE "done"

\* lines 87-96: single_call is over once the call returned or its exception
\* was absorbed, with the value r; an exception left unabsorbed ends it too
AfterCall(r, oc) == IF r.type = "exception" THEN "raised" ELSE "done"

\* CallsAfterCall with a refund: a call that failed gives its admission back
CallsAfterCallRefund(oc) ==
    IF oc # "ok" /\ calls # <<>> THEN SubSeq(calls, 1, Len(calls) - 1) ELSE calls

\* lines 84-98: nothing after rate_limiter.acquire() touches the limiter,
\* whatever the outcome of the call
CallsAfterCall(oc) == calls

\* lines 86-98: the thread is done; return or absorb the exception, count
\* the prompt, leave "async with semaphore".
Complete(i, oc) ==
    /\ mainpc = "gather"
    /\ pc[i] = "invoke"
    /\ outcome' = [outcome EXCEPT ![i] = oc]
    /\ LET r == SingleCallResult(name, MakeLLM(name), prompts[i], oc) IN
         /\ ret' = [ret EXCEPT ![i] = r]
         /\ pc' = [pc EXCEPT ![i] = AfterCall(r, oc)]
    /\ pbar' = PbarUpdate(oc)
    /\ semaphore' = Release
    /\ calls' = CallsAfterCall(oc)
    /\ reordered' = (reordered \/ \E j \in 1..(i-1) : pc[j] \notin {"done", "raised"})
    /\ UNCHANGED <<batchVars, evalVars, stageVars>>
    /\ UNCHANGED <<prompts, name, concurrency_limit, max_calls, period,
                   clock, wake, invoked, mainpc, results>>

\* Gather with the failed prompts left out of the list
GatherDropFailed == SelectSeq([i \in 1..Len(prompts) |-> ret[i]],
                              LAMBDA r : r # NoResponse)

\* asyncio.gather(*tasks): the tasks' return values, by position
Gather == [i \in 1..Len(prompts) |-> ret[i]]

\* lines 101-105: every task is done; return the gathered list.
Return ==
    /\ mainpc = "gather"
    /\ \A i \in Tasks : pc[i] = "done"
    /\ results' = Gather
    /\ mainpc' = "returned"
    /\ UNCHANGED <<batchVars, evalVars, stageVars>>
    /\ UNCHANGED <<prompts, name, concurrency_limit, max_calls, period,
                   calls, semaphore, clock, pc, wake, outcome, ret, pbar,
                   invoked, reordered>>

\* time passes while the run is on
Tick ==
    /\ mainpc = "gather"
    /\ clock < MaxTime
    /\ clock' = clock + 1
    /\ UNCHANGED <<batchVars, evalVars, stageVars>>
    /\ UNCHANGED <<prompts, name, concurrency_limit, max_calls, period,
                   calls, semaphore, pc, wake, outcome, ret, pbar, invoked, mainpc,
                   results, reordered>>

(***************************************************************************)
(* What the code does with arguments outside their meaningful range.       *)
(***************************************************************************)
\* line 68-75: asyncio.Semaphore(value) raises ValueError for value < 0;
\* RateLimiter.__init__ (lines 35-38) stores its arguments unchecked.
ConstructValueError ==
    /\ mainpc = "start"
    /\ Capacity(name, concurrency_limit) < 0
    /\ mainpc' = "raised"
    /\ UNCHANGED <<batchVars, evalVars, stageVars>>
    /\ UNCHANGED <<prompts, name, concurrency_limit, max_calls, period,
                   calls, semaphore, clock, pc, wake, outcome, ret, pbar,
                   invoked, results, reordered>>

\* lines 82-83, 43-46: the window counts as full while empty (max_calls <=
\* 0), and self.calls[0] raises IndexError inside the task, which leaves
\* "async with semaphore" before the try of line 84.
EnterIndexError(i) ==
    /\ mainpc = "gather"
    /\ pc[i] = "created"
    /\ SemaphoreFree
    /\ LET pruned == Prune(calls, clock, period)
       IN  /\ WindowFull(pruned, max_calls)
           /\ pruned = <<>>
           /\ calls' = pruned
    /\ pc' = [pc EXCEPT ![i] = "raised"]
    /\ ret' = [ret EXCEPT ![i] = Raised("IndexError")]
    /\ reordered' = (reordered \/ \E j \in 1..(i-1) : pc[j] \notin {"done", "raised"})
    /\ UNCHANGED <<batchVars, evalVars, stageVars>>
    /\ UNCHANGED <<prompts, name, concurrency_limit, max_calls, period,
                   semaphore, clock, wake, outcome, pbar, invoked, mainpc, results>>

\* line 101: gather re-raises the first exception of a task to the caller;
\* asyncio.run then cancels the tasks still pending, which leave their
\* "async with" and "finally" blocks.
GatherRaise ==
    /\ mainpc = "gather"
    /\ \E i \in Tasks : pc[i] = "raised"
    /\ mainpc' = "raised"
    /\ pc' = [i \in Tasks |->
                IF pc[i] \in {"done", "raised"} THEN pc[i] ELSE "cancelled"]
    /\ semaphore' = semaphore + Cardinality(Holding)
    /\ pbar' = pbar + Cardinality(InFlight)
    /\ UNCHANGED <<batchVars, evalVars, stageVars>>
    /\ UNCHANGED <<prompts, name, concurrency_limit, max_calls, period,
                   calls, clock, wake, outcome, ret, invoked, results,
                   reordered>>

\* the state before a run, for given arguments
Start(lists, names, limits, maxcalls, periods) ==
    /\ prompts \in lists
    /\ name \in names
    /\ concurrency_limit \in limits
    /\ max_calls \in maxcalls
    /\ period \in periods
    /\ calls = <<>>
    /\ semaphore = 0
    /\ clock = 0
    /\ pc = <<>>
    /\ wake = <<>>
    /\ outcome = <<>>
    /\ ret = <<>>
    /\ pbar = 0
    /\ invoked = <<>>
    /\ mainpc = "start"
    /\ results = <<>>
    /\ reordered = FALSE

\* the batched fallback is not running
BatchIdle ==
    /\ exs = <<>>
    /\ bi = 0
    /\ idx = 0
    /\ bresults = <<>>
    /\ bpc = "idle"
    /\ filtered = {}
    /\ failed = {}
    /\ submitted = [p \in 1..Len(exs) |-> 0]
    /\ output = <<>>

NoMetadata == [raw |-> NoValue, correct_index |-> 0, predicted_index |-> 0,
               correct_flag |-> 0]

\* the evaluation harness is not running
EvalIdle ==
    /\ hsem = 0
    /\ waiting = 0
    /\ inflight = 0
    /\ scored = 0
    /\ last = NoMetadata

\* no caller has called RateLimiter.acquire outside a run
RLIdle ==
    /\ issued = <<>>
    /\ naps = <<>>
    /\ slept = <<>>
    /\ admit = <<>>

NoCall == [raw |-> NoValue, result |-> NoValue]

\* process_examples_async is not running
GenIdle ==
    /\ forum = <<>>
    /\ gen = <<>>
    /\ gsem = 0
    /\ gpc = "idle"
    /\ written = {}
    /\ glast = NoCall

\* llm_infer is not the entry of the run
InferIdle ==
    /\ ex = NoValue
    /\ ipc = "idle"

\* the stages around the dispatcher are not running
StageIdle == RLIdle /\ GenIdle /\ InferIdle

\* runs with meaningful arguments
Init ==
    /\ Start(PromptLists, Names, 1..MaxLimit, 1..MaxCalls, 1..MaxPeriod)
    /\ BatchIdle
    /\ EvalIdle
    /\ StageIdle

Next ==
    \/ Construct
    \/ \E i \in Tasks : Enter(i)
    \/ \E i \in Tasks : Wake(i)
    \/ \E i \in Tasks, oc \in Outcomes : Complete(i, oc)
    \/ Return
    \/ Tick

Spec == Init /\ [][Next]_vars

\* runs with any arguments, malformed ones included
InitCfg ==
    /\ Start(PromptLists, Names, -1..1, -1..1, -1..1)
    /\ BatchIdle
    /\ EvalIdle
    /\ StageIdle

NextCfg ==
    \/ Next
    \/ ConstructValueError
    \/ \E i \in Tasks : EnterIndexError(i)
    \/ GatherRaise

SpecCfg == InitCfg /\ [][NextCfg]_vars

(***************************************************************************)
(* Runs with meaningful arguments, to their end.  The event loop runs a    *)
(* task that can run, a backend call that was made returns or raises, and  *)
(* time passes: a step that stays possible is taken.  The clock of these   *)
(* runs goes on beyond LiveTime for as long as a task sleeps.              *)
(***************************************************************************)
LivePrompts == 2   \* longest prompt list of these runs
LiveTime    == 1   \* with no task asleep, the clock stops advancing here

LiveLists == { [i \in 1..n |-> Prompt(i)] : n \in 0..LivePrompts }

InitLive ==
    /\ Start(LiveLists, Names, 1..MaxLimit, 1..MaxCalls, 1..MaxPeriod)
    /\ BatchIdle
    /\ EvalIdle
    /\ StageIdle

\* time passes while the run is on, and until the last sleeper is due
TickLive ==
    /\ mainpc = "gather"
    /\ \/ clock < LiveTime
       \/ \E i \in Tasks : pc[i] = "sleeping" /\ wake[i] > clock
    /\ clock' = clock + 1
    /\ UNCHANGED <<batchVars, evalVars, stageVars>>
    /\ UNCHANGED <<prompts, name, concurrency_limit, max_calls, period,
                   calls, semaphore, pc, wake, outcome, ret, pbar, invoked,
                   mainpc, results, reordered>>

NextLive ==
    \/ Construct
    \/ \E i \in Tasks : Enter(i)
    \/ \E i \in Tasks : Wake(i)
    \/ \E i \in Tasks, oc \in Outcomes : Complete(i, oc)
    \/ Return
    \/ TickLive

SpecLive == InitLive /\ [][NextLive]_vars /\ WF_vars(NextLive)

(***************************************************************************)
(* Runs with the limiter of lines 70-77.  The runs of Spec scale the       *)
(* window down (max_calls and period are drawn from small ranges) so that  *)
(* it fills; here the limiter is the one the code builds for the name.     *)
(* Its window holds 500 calls or more, so with lists of MaxPrompts prompts *)
(* it never fills and no task sleeps.                                      *)
(***************************************************************************)
\* lines 68-79 and 100: build the gate and the limiter for the name, create
\* one task per prompt.
ConstructProfile ==
    /\ mainpc = "start"
    /\ Capacity(name, concurrency_limit) >= 0
    /\ semaphore' = Capacity(name, concurrency_limit)
    /\ max_calls' = RateProfile(name).max_calls
    /\ period' = RateProfile(name).period
    /\ calls' = <<>>
    /\ pbar' = 0
    /\ invoked' = [i \in 1..Len(prompts) |-> 0]
    /\ pc' = [i \in 1..Len(prompts) |-> "created"]
    /\ wake' = [i \in 1..Len(prompts) |-> 0]
    /\ outcome' = [i \in 1..Len(prompts) |-> "none"]
    /\ ret' = [i \in 1..Len(prompts) |-> NoValue]
    /\ mainpc' = "gather"
    /\ UNCHANGED <<batchVars, evalVars, stageVars>>
    /\ UNCHANGED <<prompts, name, concurrency_limit, clock, results,
                   reordered>>

\* the caller's concurrency_limit: small ones, and the default
ProfileLimits == (1..MaxLimit) \cup {DefaultConcurrencyLimit}

\* no limiter is built yet
InitProfile ==
    /\ Start(PromptLists, Names, ProfileLimits, {0}, {0})
    /\ BatchIdle
    /\ EvalIdle
    /\ StageIdle

NextProfile ==
    \/ ConstructProfile
    \/ \E i \in Tasks : Enter(i)
    \/ \E i \in Tasks, oc \in Outcomes : Complete(i, oc)
    \/ Return
    \/ Tick

SpecProfile == InitProfile /\ [][NextProfile]_vars

(***************************************************************************)
(* llm_infer, batched fallback: invoke_concurrently_batch (lines 141-175)   *)
(* and the unwrapping of its list (lines 177-191).  llm_infer as written   *)
(* returns at line 139 (async_nonbatched = True, line 136), so these lines  *)
(* run in no call of llm_infer: SpecBatch starts past line 139, to say     *)
(* what they do when they run.                                             *)
(***************************************************************************)
ExsLists == { [i \in 1..n |-> Prompt(i)] : n \in 0..MaxExs }

Min(a, b) == IF a < b THEN a ELSE b

\* exs[i:i+batch_size]
Batch(i) == SubSeq(exs, i + 1, Min(i + batch_size, Len(exs)))

\* positions in exs of the prompts of exs[i:i+batch_size]
BatchPositions(i) == (i + 1)..Min(i + batch_size, Len(exs))

\* OnChunkFail with the chunk's failure leaving an entry behind
OnChunkFailPartial == Append(bresults, NoResponse)

\* lines 147-155: llm.abatch raised before results.extend (line 154) ran, so
\* the failed submission leaves the list as it was
OnChunkFail == bresults

\* lines 144-154 and 165: llm.abatch answered for every prompt of the list
Abatch(llm, batch) == [k \in 1..Len(batch) |-> Invoke(llm, batch[k])]

\* lines 144-154: the chunk-level submission succeeds; its responses are
\* appended and the loop moves to the next chunk.
ChunkOk ==
    /\ bpc = "chunk"
    /\ bi < Len(exs)
    /\ bresults' = bresults \o Abatch(MakeLLM(name), Batch(bi))
    /\ submitted' = [p \in DOMAIN submitted |->
                       IF p \in BatchPositions(bi) THEN submitted[p] + 1
                       ELSE submitted[p]]
    /\ bi' = bi + batch_size
    /\ UNCHANGED <<exs, idx, bpc, filtered, failed, output>>
    /\ UNCHANGED <<dispVars, evalVars, stageVars>>

\* lines 155-159: the chunk-level submission raises, on a content filter or
\* on anything else; the chunk's prompts are retried one at a time.
ChunkFail(oc) ==
    /\ bpc = "chunk"
    /\ bi < Len(exs)
    /\ bpc' = "retry"
    /\ idx' = 1
    /\ filtered' = IF oc = "content_filter" THEN filtered \cup {bi} ELSE filtered
    /\ failed' = failed \cup {bi}
    /\ submitted' = [p \in DOMAIN submitted |->
                       IF p \in BatchPositions(bi) THEN submitted[p] + 1
                       ELSE submitted[p]]
    /\ bresults' = OnChunkFail
    /\ UNCHANGED <<exs, bi, output>>
    /\ UNCHANGED <<dispVars, evalVars, stageVars>>

\* lines 159-173: one individual retry; its response, or the sentinel, is
\* appended.  After the last prompt of the chunk the loop moves on.
Retry(oc) ==
    /\ bpc = "retry"
    /\ LET batch == Batch(bi)
           r == IF oc = "ok"
                THEN Abatch(MakeLLM(name), <<batch[idx]>>)[1]
                ELSE IF oc = "content_filter" THEN NoResponse ELSE NoResponse
       IN  /\ bresults' = Append(bresults, r)
           /\ submitted' = [submitted EXCEPT ![bi + idx] = @ + 1]
           /\ IF idx = Len(batch)
              THEN idx' = 0 /\ bi' = bi + batch_size /\ bpc' = "chunk"
              ELSE idx' = idx + 1 /\ UNCHANGED <<bi, bpc>>
    /\ UNCHANGED <<exs, filtered, failed, output>>
    /\ UNCHANGED <<dispVars, evalVars, stageVars>>

\* has attribute content
HasContent(elt) == elt.type = "AIMessage"

\* lines 175-189: the loop is over and every element of the list has a
\* content attribute; llm_infer returns the contents.
UnwrapReturn ==
    /\ bpc = "chunk"
    /\ bi >= Len(exs)
    /\ \A k \in 1..Len(bresults) : HasContent(bresults[k])
    /\ output' = [k \in 1..Len(bresults) |-> Str(bresults[k].val)]
    /\ bpc' = "returned"
    /\ UNCHANGED <<exs, bi, idx, bresults, filtered, failed, submitted>>
    /\ UNCHANGED <<dispVars, evalVars, stageVars>>

\* lines 175-189: the loop is over and an element of the list is a string
\* (the sentinel, or a Replicate response); elt.content raises
\* AttributeError out of llm_infer.
UnwrapRaise ==
    /\ bpc = "chunk"
    /\ bi >= Len(exs)
    /\ \E k \in 1..Len(bresults) : ~HasContent(bresults[k])
    /\ bpc' = "raised"
    /\ UNCHANGED <<exs, bi, idx, bresults, filtered, failed, submitted,
                   output>>
    /\ UNCHANGED <<dispVars, evalVars, stageVars>>

\* the dispatcher is not running
DispIdle ==
    /\ prompts = <<>>
    /\ concurrency_limit = DefaultConcurrencyLimit
    /\ max_calls = 0
    /\ period = 0
    /\ calls = <<>>
    /\ semaphore = 0
    /\ clock = 0
    /\ pc = <<>>
    /\ wake = <<>>
    /\ outcome = <<>>
    /\ ret = <<>>
    /\ pbar = 0
    /\ invoked = <<>>
    /\ mainpc = "idle"
    /\ results = <<>>
    /\ reordered = FALSE

InitBatch ==
    /\ DispIdle
    /\ EvalIdle
    /\ StageIdle
    /\ name \in Names
    /\ exs \in ExsLists
    /\ bi = 0
    /\ idx = 0
    /\ bresults = <<>>
    /\ bpc = "chunk"
    /\ filtered = {}
    /\ failed = {}
    /\ submitted = [p \in 1..Len(exs) |-> 0]
    /\ output = <<>>

NextBatch ==
    \/ ChunkOk
    \/ \E oc \in Outcomes \ {"ok"} : ChunkFail(oc)
    \/ \E oc \in Outcomes : Retry(oc)
    \/ UnwrapReturn
    \/ UnwrapRaise

SpecBatch == InitBatch /\ [][NextBatch]_vars

(***************************************************************************)
(* Evaluation harness: evaluate_single, run as tasks by main_async.  The   *)
(* tasks differ only in their data, so they are counted, not named.        *)
(***************************************************************************)
\* the text of a number, as in the fallback "predicted_index": "0"
Digits(n) == Str(<<"digits", n>>)

\* a JSON number
Number(n) == [type |-> "int", val |-> <<"", n>>]

\* int(x) for a number or the text of one
IntOf(x) == x.val[2]

\* texts the backend may answer an evaluation prompt with: a JSON object
\* with a predicted_index, a JSON object without one, text that is no JSON
EvalTexts == {<<"json", k>> : k \in 0..(NumChoices - 1)}
                \cup {<<"json-no-index", 0>>, <<"R", 0>>}

\* json.loads: the parsed object, or JSONDecodeError
JsonLoads(s) ==
    IF s.val[1] = "json" THEN [keys |-> {"predicted_index", "explanation"},
                               predicted_index |-> Number(s.val[2])]
    ELSE IF s.val[1] = "json-no-index"
    THEN [keys |-> {"explanation"}, predicted_index |-> NoValue]
    ELSE [keys |-> {"JSONDecodeError"}, predicted_index |-> NoValue]

\* lines 72-85: from the list llm_infer returned to the metadata
Score(raw_output_list, correct_idx) ==
    LET output_str == IF raw_output_list # <<>> THEN raw_output_list[1]
                      ELSE Str(<<"", 0>>)
        parsed == JsonLoads(output_str)
        predicted == IF "JSONDecodeError" \in parsed.keys
                     THEN Digits(0)                 \* line 79
                     ELSE IF "predicted_index" \in parsed.keys
                     THEN parsed.predicted_index
                     ELSE Number(0)                 \* output.get(..., 0)
        predicted_idx == IntOf(predicted)
    IN  [raw |-> output_str,
         correct_index |-> correct_idx,
         predicted_index |-> predicted_idx,
         correct_flag |-> IF predicted_idx = correct_idx THEN 1 ELSE 0]

\* the model evaluate_single calls llm_infer with (the default of line 109)
EvalModel == "gpt-4o"

\* lines 63-69, and llm_infer up to the backend call: the task takes a slot
\* of the module-level semaphore; llm_infer builds a gate and a limiter of
\* its own for this one call (lines 68-77), which therefore admit it.
EvalBegin ==
    /\ waiting > 0
    /\ hsem > 0
    /\ Capacity(EvalModel, DefaultConcurrencyLimit) > 0
    /\ hsem' = hsem - 1
    /\ waiting' = waiting - 1
    /\ inflight' = inflight + 1
    /\ UNCHANGED <<scored, last>>
    /\ UNCHANGED <<dispVars, batchVars, stageVars>>

\* lines 63-99: the backend call is over; llm_infer returns its one-element
\* list, the task leaves "async with semaphore" and scores the answer.
EvalFinish(oc, text, correct_idx) ==
    /\ inflight > 0
    /\ inflight' = inflight - 1
    /\ hsem' = hsem + 1
    /\ scored' = scored + 1
    /\ last' = Score(<<SingleCall(EvalModel, MakeLLM(EvalModel), text, oc)>>,
                     correct_idx)
    /\ UNCHANGED waiting
    /\ UNCHANGED <<dispVars, batchVars, stageVars>>

InitEval ==
    /\ DispIdle
    /\ name = EvalModel
    /\ BatchIdle
    /\ StageIdle
    /\ hsem = MAX_CONCURRENT
    /\ waiting = EvalTasks
    /\ inflight = 0
    /\ scored = 0
    /\ last = NoMetadata

NextEval ==
    \/ EvalBegin
    \/ \E oc \in Outcomes, text \in EvalTexts, c \in 0..(NumChoices - 1) :
          EvalFinish(oc, text, c)

SpecEval == InitEval /\ [][NextEval]_vars

(***************************************************************************)
(* RateLimiter on its own: callers of acquire() on one fresh limiter, with *)
(* no gate in front of it.  The callers are tasks created in order, so     *)
(* they call in order; a later one may call while an earlier one sleeps.   *)
(***************************************************************************)
RLCallers  == 5    \* acquire() calls made on the limiter
RLMaxCalls == 3    \* largest max_calls
RLPeriod   == 10   \* the period of the long window
RLCallTime == 2    \* acquire() is called on an idle limiter up to this time

\* periods of the limiter: zero, negative, short, long
RLPeriods == (-1..1) \cup {RLPeriod}

\* lines 41-47 and 51: acquire() up to its first suspension.  The window is
\* full and the caller sleeps; or it counts as full while empty and
\* self.calls[0] raises IndexError; or the timestamp is appended.
Acquire(i) ==
    /\ mainpc = "limiter"
    /\ pc[i] = "created"
    /\ \A j \in 1..(i - 1) : pc[j] # "created"
    /\ issued' = [issued EXCEPT ![i] = clock]
    /\ LET now == clock
           pruned == Prune(calls, now, period)
       IN  \/ /\ WindowFull(pruned, max_calls)
              /\ pruned # <<>>
              /\ calls' = pruned
              /\ slept' = [slept EXCEPT ![i] = SleepTime(pruned, now, period)]
              /\ wake' = [wake EXCEPT ![i] = now + SleepTime(pruned, now, period)]
              /\ naps' = [naps EXCEPT ![i] = @ + 1]
              /\ pc' = [pc EXCEPT ![i] = "sleeping"]
              /\ UNCHANGED admit
           \/ /\ WindowFull(pruned, max_calls)
              /\ pruned = <<>>
              /\ calls' = pruned
              /\ pc' = [pc EXCEPT ![i] = "raised"]
              /\ UNCHANGED <<slept, wake, naps, admit>>
           \/ /\ ~WindowFull(pruned, max_calls)
              /\ calls' = Append(pruned, clock)
              /\ admit' = [admit EXCEPT ![i] = clock]
              /\ pc' = [pc EXCEPT ![i] = "done"]
              /\ UNCHANGED <<slept, wake, naps>>
    /\ UNCHANGED <<batchVars, evalVars, genVars, inferVars>>
    /\ UNCHANGED <<prompts, name, concurrency_limit, max_calls, period,
                   semaphore, clock, outcome, ret, pbar, invoked, mainpc, results,
                   reordered>>

\* lines 47-51: asyncio.sleep is over; re-prune and append, with no second
\* look at the count.
AcquireWake(i) ==
    /\ mainpc = "limiter"
    /\ pc[i] = "sleeping"
    /\ clock >= wake[i]
    /\ LET now == clock
           pruned == Prune(calls, now, period)
       IN  calls' = Append(pruned, clock)
    /\ admit' = [admit EXCEPT ![i] = clock]
    /\ pc' = [pc EXCEPT ![i] = "done"]
    /\ UNCHANGED <<issued, naps, slept>>
    /\ UNCHANGED <<batchVars, evalVars, genVars, inferVars>>
    /\ UNCHANGED <<prompts, name, concurrency_limit, max_calls, period,
                   semaphore, clock, wake, outcome, ret, pbar, invoked, mainpc,
                   results, reordered>>

\* time passes: up to the last time a caller calls at, and beyond it as
\* long as a caller sleeps.  asyncio.sleep resumes a caller when its delay
\* is over, so time does not pass a sleeper that is due.
TickRL ==
    /\ mainpc = "limiter"
    /\ \A i \in 1..RLCallers : pc[i] = "sleeping" => wake[i] > clock
    /\ \/ clock < RLCallTime
       \/ \E i \in 1..RLCallers : pc[i] = "sleeping"
    /\ clock' = clock + 1
    /\ UNCHANGED <<batchVars, evalVars, stageVars>>
    /\ UNCHANGED <<prompts, name, concurrency_limit, max_calls, period,
                   calls, semaphore, pc, wake, outcome, ret, pbar, invoked, mainpc,
                   results, reordered>>

\* RateLimiter(max_calls, period) just built (lines 35-38, unchecked), and
\* the callers about to call
InitRL ==
    /\ prompts = <<>>
    /\ name = "gpt-4o"
    /\ concurrency_limit = DefaultConcurrencyLimit
    /\ max_calls \in 0..RLMaxCalls
    /\ period \in RLPeriods
    /\ calls = <<>>
    /\ semaphore = 0
    /\ clock = 0
    /\ pc = [i \in 1..RLCallers |-> "created"]
    /\ wake = [i \in 1..RLCallers |-> 0]
    /\ outcome = <<>>
    /\ ret = <<>>
    /\ pbar = 0
    /\ invoked = <<>>
    /\ mainpc = "limiter"
    /\ results = <<>>
    /\ reordered = FALSE
    /\ BatchIdle
    /\ EvalIdle
    /\ issued = [i \in 1..RLCallers |-> -1]
    /\ naps = [i \in 1..RLCallers |-> 0]
    /\ slept = [i \in 1..RLCallers |-> 0]
    /\ admit = [i \in 1..RLCallers |-> -1]
    /\ GenIdle
    /\ InferIdle

NextRL ==
    \/ \E i \in 1..RLCallers : Acquire(i)
    \/ \E i \in 1..RLCallers : AcquireWake(i)
    \/ TickRL

SpecRL == InitRL /\ [][NextRL]_vars

(***************************************************************************)
(* RateLimiter behind a gate of capacity 1 (asyncio.Semaphore(1), line 72, *)
(* around the call of line 83): a caller enters acquire() only when no     *)
(* other caller is inside it.                                              *)
(***************************************************************************)
\* callers suspended inside acquire()
Inside == {i \in 1..RLCallers : pc[i] = "sleeping"}

\* lines 82-83 with a gate of capacity 1: acquire() is entered when the
\* caller before has left it
AcquireSeq(i) ==
    /\ Inside = {}
    /\ Acquire(i)

NextSeq ==
    \/ \E i \in 1..RLCallers : AcquireSeq(i)
    \/ \E i \in 1..RLCallers : AcquireWake(i)
    \/ TickRL

SpecSeq == InitRL /\ [][NextSeq]_vars

(***************************************************************************)
(* Distractor generation (question_generation.py): process_examples_async  *)
(* runs one process_single_example coroutine per example; each runs the    *)
(* from-scratch and from-rulebook generators together and, for an example  *)
(* with three forum posts or more, the two forum generators after them.    *)
(* Every generator makes one llm_infer call under the shared semaphore and *)
(* parses its answer.                                                      *)
(***************************************************************************)
GenExamples == 2    \* lines of the examples file

max_concurrency == 25   \* question_generation.py, line 215

Generators == {"scratch", "rulebook", "forum", "forum_and_rulebook"}

\* texts the backend may answer a generator's prompt with: a JSON object
\* with mcq_candidates, a JSON object without, text that is no JSON
GenTexts == {<<"mcq", 0>>, <<"json-no-index", 0>>, <<"R", 0>>}

\* a Python list
List(t) == [type |-> "list", val |-> t]

\* lines 69, 89, 116, 158:
\* json.loads(output_list[0])['mcq_candidates'][1:] if output_list else ""
Distractors(output_list) ==
    IF output_list = <<>> THEN Str(<<"", 0>>)
    ELSE LET s == output_list[1] IN
         IF s.val[1] = "mcq" THEN List(<<"distractors", s.val[2]>>)
         ELSE IF s.val[1] \in {"json", "json-no-index"} THEN Raised("KeyError")
         ELSE Raised("JSONDecodeError")

\* lines 169-193: the generators process_single_example awaits for example
\* e, and those of them it has started
Wanted(e) ==
    IF forum[e] THEN Generators ELSE {"scratch", "rulebook"}

Started(e) ==
    IF forum[e] /\ gen[e]["scratch"] = "ok" /\ gen[e]["rulebook"] = "ok"
    THEN Generators ELSE {"scratch", "rulebook"}

\* lines 63-68: a generator takes a slot of the semaphore and hands its
\* llm_infer call to the executor; llm_infer builds a gate and a limiter of
\* its own for the call, which admit it.
GenBegin(e, g) ==
    /\ gpc = "run"
    /\ g \in Started(e)
    /\ gen[e][g] = "pending"
    /\ gsem > 0
    /\ Capacity(EvalModel, DefaultConcurrencyLimit) > 0
    /\ gsem' = gsem - 1
    /\ gen' = [gen EXCEPT ![e][g] = "call"]
    /\ UNCHANGED <<forum, gpc, written, glast>>
    /\ UNCHANGED <<dispVars, batchVars, evalVars, rlVars, inferVars>>

\* lines 63-70: llm_infer returned its one-element list; the generator
\* leaves "async with semaphore" and parses the element, which returns the
\* distractors or raises.
GenFinish(e, g, oc, text) ==
    /\ gpc = "run"
    /\ gen[e][g] = "call"
    /\ gsem' = gsem + 1
    /\ LET output_list == <<SingleCall(EvalModel, MakeLLM(EvalModel), text, oc)>>
           r == Distractors(output_list)
       IN  /\ gen' = [gen EXCEPT ![e][g] =
                        IF r.type = "exception" THEN "raised" ELSE "ok"]
           /\ glast' = [raw |-> output_list[1], result |-> r]
    /\ UNCHANGED <<forum, gpc, written>>
    /\ UNCHANGED <<dispVars, batchVars, evalVars, rlVars, inferVars>>

\* lines 188, 193, 228: neither gather passes return_exceptions, so a
\* generator's exception leaves process_single_example and then
\* process_examples_async, before line 232; asyncio.run cancels what is left.
GenRaise ==
    /\ gpc = "run"
    /\ \E e \in DOMAIN gen, g \in Generators : gen[e][g] = "raised"
    /\ gpc' = "raised"
    /\ gen' = [e \in DOMAIN gen |-> [g \in Generators |->
                 IF gen[e][g] \in {"pending", "call"} THEN "cancelled"
                 ELSE gen[e][g]]]
    /\ gsem' = max_concurrency
    /\ UNCHANGED <<forum, written, glast>>
    /\ UNCHANGED <<dispVars, batchVars, evalVars, rlVars, inferVars>>

\* lines 228-238: every example's coroutine returned its record; the records
\* are written.
GenWrite ==
    /\ gpc = "run"
    /\ \A e \in DOMAIN gen : \A g \in Wanted(e) : gen[e][g] = "ok"
    /\ written' = DOMAIN gen
    /\ gpc' = "written"
    /\ UNCHANGED <<forum, gen, gsem, glast>>
    /\ UNCHANGED <<dispVars, batchVars, evalVars, rlVars, inferVars>>

InitGen ==
    /\ DispIdle
    /\ name = EvalModel
    /\ BatchIdle
    /\ EvalIdle
    /\ RLIdle
    /\ forum \in [1..GenExamples -> BOOLEAN]
    /\ gen = [e \in 1..GenExamples |-> [g \in Generators |-> "pending"]]
    /\ gsem = max_concurrency
    /\ gpc = "run"
    /\ written = {}
    /\ glast = NoCall
    /\ InferIdle

NextGen ==
    \/ \E e \in 1..GenExamples, g \in Generators : GenBegin(e, g)
    \/ \E e \in 1..GenExamples, g \in Generators, oc \in Outcomes,
          text \in GenTexts : GenFinish(e, g, oc, text)
    \/ GenRaise
    \/ GenWrite

SpecGen == InitGen /\ [][NextGen]_vars

(***************************************************************************)
(* llm_infer from its entry (lines 109-139): the argument is a string or a *)
(* list of strings; the function wraps a string, builds the client, and    *)
(* takes the branch of line 137.  The dispatcher is called with the model  *)
(* name and no concurrency_limit, so with the default of line 53 and the   *)
(* limiter of lines 70-77.  The other branch leads into the batched        *)
(* fallback, whose steps are those of SpecBatch.                           *)
(***************************************************************************)
\* async_nonbatched switched off
async_nonbatchedOff == FALSE

\* line 136
async_nonbatched == TRUE

\* Wrap without line 116: a string gives no element of the list
WrapNot(e) == IF e.type = "str" THEN <<>> ELSE e.val

\* lines 115-116: if type(ex) == str: ex = [ex]
Wrap(e) == IF e.type = "str" THEN <<e>> ELSE e.val

\* the arguments: a string, or a list of strings
InferInputs == {Prompt(1), Prompt(2)} \cup {List(l) : l \in PromptLists}

\* lines 115-139, up to the call of the dispatcher, and lines 177-184 up
\* to the call of invoke_concurrently_batch
LlmInfer ==
    /\ ipc = "called"
    /\ IF async_nonbatched
       THEN /\ prompts' = Wrap(ex)
            /\ mainpc' = "start"
            /\ ipc' = "dispatch"
            /\ UNCHANGED batchVars
       ELSE /\ exs' = Wrap(ex)
            /\ submitted' = [p \in 1..Len(Wrap(ex)) |-> 0]
            /\ bpc' = "chunk"
            /\ ipc' = "fallback"
            /\ UNCHANGED <<prompts, mainpc, bi, idx, bresults, filtered,
                           failed, output>>
    /\ UNCHANGED <<evalVars, rlVars, genVars, ex>>
    /\ UNCHANGED <<name, concurrency_limit, max_calls, period, calls,
                   semaphore, clock, pc, wake, outcome, ret, pbar, invoked,
                   results, reordered>>

\* line 139: return asyncio.run(invoke_async_nonbatched(llm, ex, model))
InferReturn ==
    /\ ipc = "dispatch"
    /\ mainpc = "returned"
    /\ output' = results
    /\ ipc' = "returned"
    /\ UNCHANGED <<dispVars, evalVars, rlVars, genVars, ex>>
    /\ UNCHANGED <<exs, bi, idx, bresults, bpc, filtered, failed, submitted>>

\* llm_infer(ex, model) was just called
InitInfer ==
    /\ DispIdle
    /\ name \in Names
    /\ BatchIdle
    /\ EvalIdle
    /\ RLIdle
    /\ GenIdle
    /\ ex \in InferInputs
    /\ ipc = "called"

NextInfer ==
    \/ LlmInfer
    \/ ConstructProfile
    \/ \E i \in Tasks : Enter(i)
    \/ \E i \in Tasks, oc \in Outcomes : Complete(i, oc)
    \/ Return
    \/ Tick
    \/ InferReturn

SpecInfer == InitInfer /\ [][NextInfer]_vars

(***************************************************************************)
(* Properties                                                              *)
(***************************************************************************)
AllDone  == \A i \in Tasks : pc[i] = "done"

\* the text the backend's outcome for prompt i stands for: its reply, or
\* the sentinel
OwnText(i) ==
    IF outcome[i] = "ok" THEN Reply(prompts[i]) ELSE NoResponse.val

\* C1: invoke_async_nonbatched returns one element per prompt, and the i-th
\* element is the outcome (backend text or sentinel) of the call made for
\* the i-th prompt, whatever the order the tasks completed in.
C1_ResultsPositional ==
    mainpc = "returned" =>
        /\ Len(results) = Len(prompts)
        /\ \A i \in 1..Len(prompts) : results[i].val = OwnText(i)

\* C1 witness: a run of the longest list returned after a later task had
\* finished before an earlier one, with a reply and a sentinel in it.
C1_Witness ==
    /\ mainpc = "returned"
    /\ Len(prompts) = MaxPrompts
    /\ reordered
    /\ \E i, j \in 1..Len(prompts) :
          outcome[i] = "ok" /\ outcome[j] # "ok"

\* C2: at most k tasks hold a slot of a gate of capacity k, and once all
\* tasks have completed none does and all k slots are free.
C2_GateBound ==
    mainpc \in {"gather", "returned"} =>
        LET k == Capacity(name, concurrency_limit) IN
        /\ Cardinality(Holding) <= k
        /\ AllDone => (Holding = {} /\ semaphore = k)

\* C2 witness: the gate is full while a task waits for a slot that an
\* earlier task has already used and given back.
C2_Witness ==
    /\ mainpc = "gather"
    /\ Cardinality(Holding) = Capacity(name, concurrency_limit)
    /\ \E i, j \in Tasks : pc[i] = "created" /\ pc[j] = "done"

\* admissions recorded within the trailing window of length period
WindowCount == Len(Prune(calls, clock, period))

\* C3: under concurrent acquire() calls the number of admissions recorded
\* within the trailing window of length period never exceeds max_calls.
C3_WindowBound == WindowCount <= max_calls

\* C4: a call failing with a content-filter message resolves to the
\* sentinel, nothing propagates out of the batch, and every other prompt
\* has the result of its own backend outcome.
C4_ContentFilterIsolated ==
    \A i \in Tasks :
        outcome[i] = "content_filter" =>
            /\ pc[i] = "done"
            /\ ret[i] = NoResponse
            /\ mainpc # "raised"
            /\ mainpc = "returned" =>
                  /\ results[i] = NoResponse
                  /\ \A j \in Tasks \ {i} : results[j].val = OwnText(j)

\* C4 witness: a batch returned in which one call was filtered and a
\* sibling got its reply.
C4_Witness ==
    /\ mainpc = "returned"
    /\ \E i, j \in Tasks :
          /\ outcome[i] = "content_filter"
          /\ outcome[j] = "ok"
          /\ results[j].val = Reply(prompts[j])

\* C5: a call failing with any other exception resolves to the same
\* sentinel as a filtered one, and the batch still returns a full list.
C5_OtherErrorSentinel ==
    \A i \in Tasks :
        outcome[i] = "error" =>
            /\ pc[i] = "done"
            /\ ret[i] = OnContentFilter
            /\ mainpc = "returned" =>
                  (Len(results) = Len(prompts) /\ results[i] = NoResponse)

\* C5 witness: a batch returned in which one call raised an unrelated
\* exception and another was filtered.
C5_Witness ==
    /\ mainpc = "returned"
    /\ \E i, j \in Tasks : outcome[i] = "error" /\ outcome[j] = "content_filter"

\* positions in exs of the chunk starting at c
ChunkPositions(c) == (c + 1)..Min(c + batch_size, Len(exs))

\* the chunk starting at c, of several prompts, failed on a content filter
\* and exactly one of its individual retries failed
OneRetryFailed(c) ==
    /\ c \in filtered
    /\ Cardinality(ChunkPositions(c)) > 1
    /\ \A p \in ChunkPositions(c) : p <= Len(bresults)
    /\ Cardinality({p \in ChunkPositions(c) : bresults[p] = NoResponse}) = 1

InvalidConfig == period <= 0 \/ max_calls <= 0 \/ concurrency_limit <= 0

\* C7: a malformed configuration is rejected when the limiter and the gate
\* are constructed: the run raises before any task is created, and never
\* raises from inside a task, runs unthrottled or blocks.
C7_InvalidConfigRejected ==
    InvalidConfig => (mainpc \in {"start", "raised"} /\ pc = <<>>)

\* C8: the number of backend calls in flight for one backend never exceeds
\* the concurrency limit configured for it, also with several llm_infer
\* calls of the harness running at once.
C8_BackendInFlightBound ==
    inflight <= Capacity(EvalModel, DefaultConcurrencyLimit)

\* C9: a prompt whose result is the sentinel is scored as incorrect wherever
\* the correct answer sits among the choices.
C9_SentinelScoredIncorrect ==
    last.raw = NoResponse => last.correct_flag = 0

\* a scenario run: the three prompts Q1, Q2, Q3 submitted
Scenario ==
    /\ Len(prompts) = 3
    /\ mainpc \in {"gather", "returned"}

\* the list returned is [R1, R2, R3]: at each position the result of that
\* prompt's own call
InOrderResults ==
    /\ Len(results) = 3
    /\ \A i \in 1..3 : results[i].val = OwnText(i)

\* no two backend calls overlap: a call runs only while its task holds the
\* single slot, and the next starts only after the slot was given back
StrictlySequential ==
    /\ Cardinality(InFlight) <= 1
    /\ InFlight # {} => (semaphore = 0 /\ Cardinality(Holding) = 1)

\* C10: with concurrency_limit = 1 and prompts [Q1, Q2, Q3] no two backend
\* calls overlap and the list returned is [R1, R2, R3].
C10_SequentialAsStated ==
    (concurrency_limit = 1 /\ Scenario) =>
        /\ StrictlySequential
        /\ mainpc = "returned" => InOrderResults

\* C10 for the names line 73 does not single out: with concurrency_limit =
\* 1, a model name that does not contain 'Claude' and prompts [Q1, Q2, Q3],
\* no two backend calls overlap and the list returned is [R1, R2, R3].
C10_Sequential ==
    (concurrency_limit = 1 /\ ~HasClaude(name) /\ Scenario) =>
        /\ StrictlySequential
        /\ mainpc = "returned" => InOrderResults

\* the scenario returned the three replies in order for the default model,
\* through a gate of one slot
C10_Witness ==
    /\ concurrency_limit = 1
    /\ name = "gpt-4o"
    /\ Scenario
    /\ mainpc = "returned"
    /\ \A i \in 1..3 : results[i] = Str(<<"R", i>>)
    /\ semaphore = 1
    /\ pbar = 3

\* the callers all called acquire() at one instant, on a fresh limiter built
\* with max_calls >= 1 and period > 0
Burst ==
    /\ max_calls >= 1
    /\ period > 0
    /\ \A i \in 1..RLCallers : issued[i] >= 0 /\ issued[i] = issued[1]

\* C11: when the callers of a fresh RateLimiter (max_calls = 3, period = 10,
\* five callers; any max_calls >= 1 and period > 0 here) all call acquire()
\* at one instant, the first max_calls are admitted at that instant without
\* suspension, and every later one, the 4th and the 5th of the five, is
\* suspended once, for at least period minus the time elapsed since the
\* oldest admission, and admitted no earlier than period after the first
\* call.
C11_BurstAdmission ==
    Burst =>
        \A i \in 1..RLCallers :
            /\ i <= max_calls =>
                  (pc[i] = "done" /\ naps[i] = 0 /\ admit[i] = issued[1])
            /\ i > max_calls =>
                  /\ naps[i] = 1
                  /\ slept[i] >= period - (issued[i] - admit[1])
                  /\ pc[i] = "done" =>
                        /\ admit[i] >= issued[i] + slept[i]
                        /\ admit[i] - issued[1] >= period

\* C11 witness: RateLimiter(3, 10), five calls at time 0, all admitted, the
\* last one at time 10 after one suspension.
C11_Witness ==
    /\ max_calls = 3
    /\ period = 10
    /\ RLCallers >= 5
    /\ Burst
    /\ issued[1] = 0
    /\ \A i \in 1..RLCallers : pc[i] = "done"
    /\ naps[4] = 1
    /\ admit[5] = 10

\* tasks whose backend call is over in a state with task positions pcs
Over(pcs) == {i \in DOMAIN pcs : pcs[i] = "done"}

\* C12: the progress counter never decreases, advances by exactly one in the
\* step in which a prompt's backend call completes, by success or by
\* exception, and in no other step, and equals the number of prompts when
\* invoke_async_nonbatched returns.
C12_ProgressCounter ==
    [][ /\ pbar' >= pbar
        /\ pbar' - pbar = Cardinality(Over(pc')) - Cardinality(Over(pc))
        /\ mainpc' = "returned" => pbar' = Len(prompts') ]_vars

\* C12 witness: a run of the longest list returned with the counter at the
\* number of prompts, a call having failed and another succeeded.
C12_Witness ==
    /\ mainpc = "returned"
    /\ Len(prompts) = LivePrompts
    /\ pbar = LivePrompts
    /\ \E i, j \in Tasks : outcome[i] = "error" /\ outcome[j] = "ok"

\* tasks whose backend call failed and was absorbed
Failed == {i \in Tasks : pc[i] = "done" /\ outcome[i] # "ok"}

\* C13: a slot taken is given back on every exit path of the task (the
\* backend call returned, it raised, RateLimiter.acquire raised, the task was
\* cancelled): the free slots and the tasks holding one always add up to the
\* capacity, all slots are free once no task holds one, and while a task
\* waits and fewer than capacity tasks hold a slot, a slot is free for it,
\* however many calls have failed.
C13_SlotsReleased ==
    LET k == Capacity(name, concurrency_limit) IN
    (mainpc # "start" /\ k >= 0) =>
        /\ semaphore + Cardinality(Holding) = k
        /\ (\E i \in Tasks : pc[i] = "created") /\ Cardinality(Holding) < k
              => SemaphoreFree

\* C13 witness: a batch returned in which more calls failed than the gate
\* has slots, a later call succeeded, and all slots are free again.
C13_Witness ==
    /\ mainpc = "returned"
    /\ Cardinality(Failed) > Capacity(name, concurrency_limit)
    /\ \E i \in Tasks : outcome[i] = "ok" /\ \A j \in Failed : j < i
    /\ semaphore = Capacity(name, concurrency_limit)

\* a task left on RateLimiter.acquire raising while another task waits, with
\* every slot free
C13_AcquireRaised ==
    /\ mainpc = "gather"
    /\ \E i, j \in Tasks : pc[i] = "raised" /\ pc[j] = "created"
    /\ semaphore = Capacity(name, concurrency_limit)
    /\ semaphore > 0

\* C14: each prompt causes exactly one llm.invoke call: never more than one
\* at any time, none before its task is admitted, one from then on, also
\* after the call failed on a content filter or on any other exception.
C14_OneInvocation ==
    \A i \in Tasks :
        /\ invoked[i] <= 1
        /\ pc[i] \in {"created", "sleeping"} => invoked[i] = 0
        /\ pc[i] \in {"invoke", "done"} => invoked[i] = 1
        /\ mainpc = "returned" => invoked[i] = 1

\* C14 witness: a batch returned in which one call was filtered and another
\* raised, each prompt invoked once.
C14_Witness ==
    /\ mainpc = "returned"
    /\ \E i, j \in Tasks :
          /\ outcome[i] = "content_filter" /\ invoked[i] = 1
          /\ outcome[j] = "error" /\ invoked[j] = 1

\* the text s is the sentinel or other text that is no JSON
NotJson(s) == s.type = "str" /\ s.val[1] \notin {"mcq", "json", "json-no-index"}

\* C15: when the llm_infer call of a generator returned the sentinel or
\* other text that is no JSON, the generator puts a fallback in the place of
\* the distractors and process_examples_async goes on to write the records:
\* nothing raises out of that generator or out of the run.
C15_StageContinues ==
    NotJson(glast.raw) =>
        /\ glast.result.type # "exception"
        /\ gpc # "raised"

\* C16: with concurrency_limit >= 1, max_calls >= 1, period > 0 and every
\* backend call returning or raising, every task of a batch passes the gate
\* and the rate limiter, makes its call and completes, and
\* invoke_async_nonbatched returns.
C16_BatchTerminates ==
    <>(/\ mainpc = "returned"
       /\ \A i \in Tasks : pc[i] = "done" /\ invoked[i] = 1)

\* C16 witness: a run of the longest list returned through a gate of one
\* slot and a window of one call, each task after the first having waited
\* for the slot and for the window.
C16_Witness ==
    /\ mainpc = "returned"
    /\ Len(prompts) = LivePrompts
    /\ Capacity(name, concurrency_limit) = 1
    /\ max_calls = 1
    /\ period = MaxPeriod
    /\ clock >= MaxPeriod
    /\ \A i \in Tasks : pc[i] = "done"

InAcquire == {i \in Tasks : pc[i] = "sleeping"}

\* the order of a task's steps: no llm.invoke call before the limiter
\* admitted the task, and the task is inside acquire, or at the backend,
\* only between taking its slot and giving it back
StepOrder ==
    /\ \A i \in Tasks : pc[i] \in {"created", "sleeping"} => invoked[i] = 0
    /\ \A i \in Tasks : invoked[i] > 0 => pc[i] \in {"invoke", "done"}
    /\ semaphore + Cardinality(InAcquire \cup InFlight)
          = Capacity(name, concurrency_limit)

\* C18: every task takes its slot, is admitted by the limiter, makes its
\* call and gives the slot back, in this order, and at most
\* concurrency_limit tasks are inside RateLimiter.acquire at once.
C18_AcquireUnderGate ==
    mainpc \in {"gather", "returned"} =>
        /\ StepOrder
        /\ Cardinality(InAcquire) <= concurrency_limit

\* C18 with the capacity of the gate the code builds in the place of
\* concurrency_limit
C18_AcquireUnderCapacity ==
    mainpc \in {"gather", "returned"} =>
        /\ StepOrder
        /\ Cardinality(InAcquire) <= Capacity(name, concurrency_limit)

\* the start of the chunk position p belongs to
ChunkOf(p) == ((p - 1) \div batch_size) * batch_size

\* position p has been dealt with: its chunk is over, or its individual
\* retry is
Settled(p) ==
    \/ ChunkOf(p) < bi
    \/ bpc = "retry" /\ ChunkOf(p) = bi /\ p < bi + idx

\* C19: in invoke_concurrently_batch a prompt is submitted once with its
\* chunk and, when that submission raised on a content filter or on
\* anything else, once more on its own, never a third time; the prompts of
\* chunks not begun have not been submitted, those of earlier chunks are
\* not submitted again, a failed chunk leaves no entry of its own, and the
\* list holds one entry per prompt dealt with, in input order, so one per
\* prompt at the end.
C19_ChunkRetry ==
    bpc # "idle" =>
        /\ \A p \in 1..Len(exs) :
              /\ submitted[p] <= 2
              /\ ChunkOf(p) > bi => submitted[p] = 0
              /\ (ChunkOf(p) = bi /\ bpc = "chunk") => submitted[p] = 0
              /\ Settled(p) =>
                    submitted[p] = IF ChunkOf(p) \in failed THEN 2 ELSE 1
              /\ (ChunkOf(p) = bi /\ bpc = "retry" /\ ~Settled(p)) =>
                    submitted[p] = 1
        /\ filtered \subseteq failed
        /\ Len(bresults) = Cardinality({p \in 1..Len(exs) : Settled(p)})
        /\ \A p \in 1..Len(bresults) :
              bresults[p] \in {Invoke(MakeLLM(name), exs[p]), NoResponse}
        /\ \A p \in 1..Len(bresults) :
              bresults[p] = NoResponse => ChunkOf(p) \in failed
        /\ bi >= Len(exs) => Len(bresults) = Len(exs)

\* C19 witness: a list of more than one chunk is done, its first chunk
\* having failed on something that is no content filter and its second on a
\* content filter, one retry of each having failed.
C19_Witness ==
    /\ bpc \in {"returned", "raised"}
    /\ Len(exs) > batch_size
    /\ 0 \in failed \ filtered
    /\ batch_size \in filtered
    /\ Len(bresults) = Len(exs)
    /\ \E p, q \in 1..Len(exs) :
          /\ ChunkOf(p) = 0 /\ bresults[p] = NoResponse
          /\ ChunkOf(q) = batch_size /\ bresults[q] = NoResponse
          /\ submitted[p] = 2 /\ submitted[q] = 2

\* the timestamps of cs retained at time now, as a set
Retained(cs, now) == {cs[k] : k \in {j \in 1..Len(cs) : now - cs[j] < period}}

\* the oldest of a set of timestamps
Oldest(ts) == CHOOSE t \in ts : \A u \in ts : t <= u

\* what one step does to caller i of acquire(): it suspends at most once,
\* never with period <= 0, for period - (now - oldest retained timestamp),
\* which is more than 0 and at most period; once awake it is admitted
\* whatever the count; the timestamps retained are kept, with one appended
\* for the admission
AcquireStep(i) ==
    /\ naps'[i] <= 1
    /\ period <= 0 => naps'[i] = 0
    /\ (pc[i] = "created" /\ pc'[i] = "sleeping") =>
          /\ naps'[i] = naps[i] + 1
          /\ slept'[i] = period - (clock - Oldest(Retained(calls, clock)))
          /\ slept'[i] > 0
          /\ slept'[i] <= period
          /\ wake'[i] = clock + slept'[i]
    /\ pc[i] = "sleeping" => pc'[i] \in {"sleeping", "done"}
    /\ (pc[i] # "done" /\ pc'[i] = "done") =>
          /\ Len(calls') = Len(Prune(calls, clock, period)) + 1
          /\ calls'[Len(calls')] = clock
          /\ \A t \in Retained(calls, clock) :
                \E k \in 1..(Len(calls') - 1) : calls'[k] = t
          /\ admit'[i] = clock
    /\ pc'[i] # "done" => admit'[i] = -1

\* C20: one acquire() call suspends at most once, for exactly period -
\* (now - oldest retained timestamp), more than 0 and at most period, then
\* re-prunes and appends one timestamp without a second look at the count;
\* it never suspends with period <= 0, and it always returns.
C20_SingleAcquire ==
    [][ \A i \in 1..RLCallers : AcquireStep(i) /\ pc'[i] # "raised" ]_vars

\* C20 for a limiter built with max_calls >= 1
C20_SingleAcquireValid ==
    [][ max_calls >= 1 =>
           \A i \in 1..RLCallers : AcquireStep(i) /\ pc'[i] # "raised" ]_vars

\* a caller was admitted after its one suspension into a window that again
\* held max_calls timestamps
C20_NoRecheck ==
    /\ max_calls >= 1
    /\ \E i \in 1..RLCallers :
          /\ pc[i] = "done"
          /\ naps[i] = 1
          /\ admit[i] = clock
          /\ Len(calls) > max_calls

\* the callers admitted within the window of length period that ends at
\* time t
AdmittedIn(t) ==
    {i \in 1..RLCallers : admit[i] >= 0 /\ admit[i] <= t /\ t - admit[i] < period}

\* C21: with at most one caller inside RateLimiter.acquire at a time, and
\* max_calls >= 1 and period > 0, the timestamp list holds at most max_calls
\* entries after every acquire(), and no window of length period holds more
\* than max_calls admissions.
C21_SequentialWindow ==
    (max_calls >= 1 /\ period > 0) =>
        /\ Len(calls) <= max_calls
        /\ \A t \in 0..clock : Cardinality(AdmittedIn(t)) <= max_calls

\* C21 witness: every caller was admitted, one of them after a suspension,
\* more callers than max_calls, and the list is full.
C21_Witness ==
    /\ max_calls >= 1
    /\ period > 1
    /\ max_calls < RLCallers
    /\ \A i \in 1..RLCallers : pc[i] = "done"
    /\ \E i \in 1..RLCallers : naps[i] = 1
    /\ Len(calls) = max_calls
    /\ Cardinality(AdmittedIn(clock)) = max_calls

\* C21 for the runs of invoke_async_nonbatched whose gate has capacity 1
\* (a name with 'LLaMA', line 72, or concurrency_limit = 1 otherwise)
C21_GateOfOne ==
    Capacity(name, concurrency_limit) = 1 =>
        /\ Len(calls) <= max_calls
        /\ WindowCount <= max_calls

\* a run behind a gate of capacity 1 in which a task slept in acquire() and
\* was admitted into the full window
C21_GateOfOneReached ==
    /\ Capacity(name, concurrency_limit) = 1
    /\ Len(calls) = max_calls
    /\ \E i, j \in Tasks : i # j /\ pc[i] = "done" /\ pc[j] = "invoke"
                            /\ calls[Len(calls)] = clock /\ clock > 0

\* the number of entries of the list cs that are the timestamp t
Count(cs, t) == Cardinality({j \in 1..Len(cs) : cs[j] = t})

\* the callers admitted at time t
AdmittedAt(t) == {i \in 1..RLCallers : admit[i] = t}

\* C22: under any interleaving of concurrent acquire() calls the timestamp
\* list is in non-decreasing order, its first element is the oldest
\* timestamp retained, every admission has appended exactly one timestamp,
\* and a timestamp is in the list for as long as it is less than period old.
C22_OrderedRetention ==
    /\ \A j \in 1..(Len(calls) - 1) : calls[j] <= calls[j + 1]
    /\ \A j \in 1..Len(calls) : calls[1] <= calls[j]
    /\ \A j \in 1..Len(calls) : calls[j] \in 0..clock
    /\ \A t \in 0..clock :
          /\ Count(calls, t) <= Cardinality(AdmittedAt(t))
          /\ clock - t < period => Count(calls, t) = Cardinality(AdmittedAt(t))

\* C22 witness: callers that slept together were admitted at one instant
\* after a caller admitted later than the first; the list holds timestamps
\* of different times, and the timestamp of the first admission is gone.
C22_Witness ==
    /\ period > 1
    /\ Len(calls) >= 3
    /\ calls[1] < calls[Len(calls)]
    /\ \E i, j \in 1..RLCallers :
          /\ i # j
          /\ naps[i] = 1 /\ naps[j] = 1
          /\ admit[i] = clock /\ admit[j] = clock
    /\ admit[1] >= 0
    /\ Count(calls, admit[1]) = 0

\* the step takes a task through RateLimiter.acquire, or through a part of
\* it: from its call to its suspension or its return, or from its
\* suspension to its return
AcquireRuns ==
    \E i \in Tasks :
        \/ pc[i] = "created" /\ pc'[i] \in {"sleeping", "invoke"}
        \/ pc[i] = "sleeping" /\ pc'[i] = "invoke"

\* the step ends a backend call, with whatever outcome
CallEnds == \E i \in Tasks : pc[i] = "invoke" /\ pc'[i] # "invoke"

\* C23: the state of the rate limiter is changed only by acquire(): a step
\* that ends a backend call (success, content filter, other exception)
\* leaves the timestamp list as it is; the list changes only while a task
\* runs acquire(), by pruning and by the append of the admission, so the
\* admission of a failed call stays as that of a successful one; max_calls
\* and period never change.
C23_LimiterOwnedByAcquire ==
    [][ /\ max_calls' = max_calls
        /\ period' = period
        /\ mainpc = "gather" =>
              /\ CallEnds => calls' = calls
              /\ calls' # calls =>
                    /\ AcquireRuns
                    /\ calls' \in {Prune(calls, clock, period),
                                   Append(Prune(calls, clock, period), clock)} ]_vars

\* C23 witness: a run is over in which one call hit the content filter and
\* another failed otherwise; the timestamps of both admissions are in the
\* list.
C23_Witness ==
    /\ mainpc = "returned"
    /\ clock = 0
    /\ \E i, j \in Tasks :
          /\ outcome[i] = "content_filter"
          /\ outcome[j] = "error"
    /\ Len(calls) = Len(prompts)
    /\ Len(calls) >= 2

\* the batched fallback has not run: no chunk was submitted, no result of
\* it exists
FallbackUntouched ==
    /\ ipc # "fallback"
    /\ bpc = "idle"
    /\ exs = <<>>
    /\ bi = 0
    /\ bresults = <<>>
    /\ failed = {}

\* C24: for every argument and model name llm_infer returns through the
\* non-batched dispatcher and the batched fallback never runs; a single
\* string is handed on as a one-element list and gives a one-element list,
\* the outcome of its own call; a list gives one element per prompt.
C24_NonBatchedOnly ==
    /\ FallbackUntouched
    /\ ipc \in {"dispatch", "returned"} =>
          /\ ex.type = "str" => prompts = <<ex>>
          /\ ex.type = "list" => prompts = ex.val
    /\ ipc = "returned" =>
          /\ mainpc = "returned"
          /\ output = results
          /\ Len(output) = Len(prompts)
          /\ ex.type = "str" =>
                /\ Len(output) = 1
                /\ output[1].val \in {Reply(ex), NoResponse.val}

\* C24 witness: llm_infer was called with the string "Q2" and returned the
\* one-element list of its reply.
C24_Witness ==
    /\ ipc = "returned"
    /\ ex = Prompt(2)
    /\ output = <<Str(<<"R", 2>>)>>

\* llm_infer was called with a list and returned one element per prompt
C24_ListReturned ==
    /\ ipc = "returned"
    /\ ex.type = "list"
    /\ Len(output) = MaxPrompts

=============================================================================
